---- MODULE Spec2Model ----
(***************************************************************************)
(* A model of turtle_adventure.py: the Turtle's Adventure game session     *)
(* (TurtleAdventureGame), its player, waypoint, home, the four enemy kinds *)
(* and the EnemyGenerator's timer-driven spawning.                         *)
(*                                                                         *)
(* Coordinates are Python floats in the program.  The model keeps them in  *)
(* fixed point: a stored coordinate is the program's value times Scale,    *)
(* and atan2/cos/sin headings are computed with an integer square root.    *)
(* Axis-aligned moves are exact.                                           *)
(***************************************************************************)
EXTENDS Integers, Sequences, FiniteSets, TLC

\* ------------------------------------------------------------ bounds
Scale == 100
MaxTicks == 7
MaxEnemies == 2
MaxClicks == 1
MaxOverlays == 2
TickDelay == 100
ArenaWidth == 170
ArenaHeight == 100
MaxOffset == 7
Tolerance == 3
MaxReach == 12
MaxWalkTicks == 140

\* ------------------------------------------------- program constants
PlayerSpeed == 5
HomeSize == 20
HomeOffsetX == 100
PlayerStartX == 50
EnemySize == 20
SpawnX == 100
SpawnY == 100
FirstSpawnDelay == 100
SpawnInterval == 500
RandSpeedMin == 1
RandSpeedMax == 5
ChasingSpeed == 3
FencingSpeed == 2
BlockerSpeed == 7
OffFromHome == 60
OffFromPlayer == 60

NoTimer == 0 - 1

VARIABLES
  screen_width,     \* TurtleAdventureGame.screen_width
  screen_height,    \* TurtleAdventureGame.screen_height
  enemies_factory,  \* TurtleAdventureGame.enemies_factory
  enemies_color,    \* TurtleAdventureGame.enemies_color
  home,             \* the Home element: [x, y, size]
  player,           \* the Player element: [x, y, speed]
  waypoint,         \* the Waypoint element: [x, y, active]
  enemies,          \* the enemies registered by add_element, in order
  running,          \* Game's running flag, cleared by stop()
  overlays,         \* the end-of-game texts drawn on the canvas, in order
  now,              \* the event loop's clock
  tickDue,          \* due time of the pending animate callback, or NoTimer
  spawnDue,         \* due time of the pending create_enemy callback
  idx,              \* position of the running animate loop (0: no tick runs)
  ticks,            \* number of ticks started
  clicks,           \* number of clicks received
  pc                \* where the session is: a step of init_game, or "run"

vars == <<screen_width, screen_height, enemies_factory, enemies_color, home,
          player, waypoint, enemies, running, overlays, now, tickDue,
          spawnDue, idx, ticks, clicks, pc>>

\* ------------------------------------------------------ fixed point
S(v) == v * Scale

Abs(a) == IF a < 0 THEN 0 - a ELSE a

Sgn(a) == IF a < 0 THEN 0 - 1 ELSE IF a > 0 THEN 1 ELSE 0

\* the largest r in lo..hi with r * r <= n, by bisection
SqrtIter(n, lo, hi) ==
  LET iter[b \in (0..hi) \X (0..hi)] ==
        IF b[1] >= b[2] THEN b[1]
        ELSE LET mid == (b[1] + b[2] + 1) \div 2
             IN IF mid * mid <= n THEN iter[<<mid, b[2]>>]
                ELSE iter[<<b[1], mid - 1>>]
  IN iter[<<lo, hi>>]

\* the square root of n, rounded to the nearest integer
Sqrt(n) ==
  LET r == SqrtIter(n, 0, 46340)
  IN IF n - r * r > r THEN r + 1 ELSE r

\* a / b rounded to the nearest integer, for b > 0
RoundDiv(a, b) == Sgn(a) * ((2 * Abs(a) + b) \div (2 * b))

\* Euclidean distance between two stored points
Distance(x1, y1, x2, y2) ==
  Sqrt((x2 - x1) * (x2 - x1) + (y2 - y1) * (y2 - y1))

\* speed * cos(atan2(dy, dx)) and speed * sin(atan2(dy, dx)); atan2(0, 0) = 0.
\* Short distances are taken with one more decimal digit, which the machine
\* integers leave room for.
\* Long distances are taken with one digit less, to stay within them.
HeadingStep(dx, dy, speed) ==
  IF Abs(dx) > 30000 \/ Abs(dy) > 30000
  THEN LET ex == RoundDiv(dx, 10)
           ey == RoundDiv(dy, 10)
           d == Sqrt(ex * ex + ey * ey)
       IN [sx |-> RoundDiv(speed * ex, d), sy |-> RoundDiv(speed * ey, d)]
  ELSE
  LET n == dx * dx + dy * dy
  IN IF n = 0 THEN [sx |-> speed, sy |-> 0]
     ELSE IF n <= 20000000
     THEN LET d == Sqrt(100 * n)
          IN [sx |-> RoundDiv(10 * speed * dx, d),
              sy |-> RoundDiv(10 * speed * dy, d)]
     ELSE LET d == Sqrt(n)
          IN [sx |-> RoundDiv(speed * dx, d), sy |-> RoundDiv(speed * dy, d)]

\* whether the vector (dx, dy) is shorter than r
ShorterThan(dx, dy, r) ==
  /\ Abs(dx) < r
  /\ Abs(dy) < r
  /\ dx * dx + dy * dy < r * r

\* ------------------------------------------------------------- Home
\* a containment test that leaves the boundary out
HomeContainsOpen(h, x, y) ==
  /\ 2 * h.x - h.size < 2 * x /\ 2 * x < 2 * h.x + h.size
  /\ 2 * h.y - h.size < 2 * y /\ 2 * y < 2 * h.y + h.size

HomeContains(h, x, y) ==
  /\ 2 * h.x - h.size <= 2 * x /\ 2 * x <= 2 * h.x + h.size
  /\ 2 * h.y - h.size <= 2 * y /\ 2 * y <= 2 * h.y + h.size

\* ---------------------------------------------------------- Waypoint
WaypointActivate(x, y) == [x |-> x, y |-> y, active |-> TRUE]

WaypointDeactivate(w) == [w EXCEPT !.active = FALSE]

\* ------------------------------------------------------------ Player
\* the movement part of Player.update(): the new player and waypoint
\* a move that heads away from the waypoint
PlayerMoveAway(p, w) ==
  IF w.active
  THEN LET st == HeadingStep(w.x - p.x, w.y - p.y, p.speed)
           q == [p EXCEPT !.x = p.x - st.sx, !.y = p.y - st.sy]
           dx == w.x - q.x
           dy == w.y - q.y
       IN [player |-> q,
           waypoint |-> IF ShorterThan(dx, dy, p.speed)
                        THEN WaypointDeactivate(w) ELSE w]
  ELSE [player |-> p, waypoint |-> w]

PlayerMove(p, w) ==
  IF w.active
  THEN LET st == HeadingStep(w.x - p.x, w.y - p.y, p.speed)
           q == [p EXCEPT !.x = p.x + st.sx, !.y = p.y + st.sy]
           dx == w.x - q.x
           dy == w.y - q.y
       IN [player |-> q,
           waypoint |-> IF ShorterThan(dx, dy, p.speed)
                        THEN WaypointDeactivate(w) ELSE w]
  ELSE [player |-> p, waypoint |-> w]

\* ------------------------------------------------------------- Enemy
\* a hit test that counts the edge of the box
HitsPlayerClosed(e, p) ==
  /\ 2 * e.x - e.size <= 2 * p.x /\ 2 * p.x <= 2 * e.x + e.size
  /\ 2 * e.y - e.size <= 2 * p.y /\ 2 * p.y <= 2 * e.y + e.size

HitsPlayer(e, p) ==
  /\ 2 * e.x - e.size < 2 * p.x /\ 2 * p.x < 2 * e.x + e.size
  /\ 2 * e.y - e.size < 2 * p.y /\ 2 * p.y < 2 * e.y + e.size

\* Enemy.__init__ and the subclass constructors; GameElement starts at (0, 0)
NewEnemy(kind, size, color) ==
  [kind |-> kind, size |-> size, color |-> color, x |-> 0, y |-> 0,
   speed |-> 0, xmove |-> "none", ymove |-> "none", move |-> "none",
   ax |-> 0, ay |-> 0, speedx |-> 0, speedy |-> 0, fresh |-> TRUE]

RandomWalkInit(size, color, speed) ==
  [NewEnemy("RandomWalkEnemy", size, color) EXCEPT
     !.speed = S(speed), !.xmove = "x_right", !.ymove = "y_down"]

ChasingInit(size, color) ==
  [NewEnemy("ChasingEnemy", size, color) EXCEPT !.speed = S(ChasingSpeed)]

FencingInit(size, color, h) ==
  [NewEnemy("FencingEnemy", size, color) EXCEPT
     !.speed = S(FencingSpeed), !.ax = h.x, !.ay = h.y]

BlockerInit(size, color, p) ==
  [NewEnemy("BlockerEnemy", size, color) EXCEPT
     !.speed = S(BlockerSpeed), !.ax = p.x, !.ay = p.y]

\* create(): RandomWalkEnemy and ChasingEnemy draw both coordinates from
\* randint(0, screen_width - 1)
RandomCreate(e, x1, y1) == [e EXCEPT !.x = S(x1), !.y = S(y1)]

\* the pos table of FencingEnemy.create and BlockerEnemy.create
PatrolStarts(ax, ay, off) ==
  <<[x |-> ax, y |-> ay + S(off), move |-> "left"],
    [x |-> ax + S(off), y |-> ay, move |-> "down"],
    [x |-> ax, y |-> ay - S(off), move |-> "right"],
    [x |-> ax - S(off), y |-> ay, move |-> "up"]>>

\* a create() that sets the leg and leaves the enemy where the generator put it
FencingCreateKeepsPlace(e, r) ==
  [e EXCEPT !.move = PatrolStarts(e.ax, e.ay, OffFromHome)[r + 1].move]

FencingCreate(e, r) ==
  LET st == PatrolStarts(e.ax, e.ay, OffFromHome)[r + 1]
  IN [e EXCEPT !.x = st.x, !.y = st.y, !.move = st.move]

BlockerCreate(e, r) ==
  LET st == PatrolStarts(e.ax, e.ay, OffFromPlayer)[r + 1]
  IN [e EXCEPT !.x = st.x, !.y = st.y, !.move = st.move]

\* RandomWalkEnemy.x_left / x_right / y_up / y_down
XMove(e, w) ==
  IF e.xmove = "x_left"
  THEN LET x == e.x - e.speed
       IN [e EXCEPT !.x = x, !.xmove = IF x < 0 THEN "x_right" ELSE @]
  ELSE LET x == e.x + e.speed
       IN [e EXCEPT !.x = x, !.xmove = IF x > S(w) THEN "x_left" ELSE @]

YMove(e, h) ==
  IF e.ymove = "y_up"
  THEN LET y == e.y - e.speed
       IN [e EXCEPT !.y = y, !.ymove = IF y <= 0 THEN "y_down" ELSE @]
  ELSE LET y == e.y + e.speed
       IN [e EXCEPT !.y = y, !.ymove = IF y > S(h) THEN "y_up" ELSE @]

RandomWalkMove(e, w, h) == YMove(XMove(e, w), h)

\* a ChasingEnemy with sin and cos exchanged
ChasingMoveSwapped(e, p) ==
  LET st == HeadingStep(p.x - e.x, p.y - e.y, e.speed)
  IN [e EXCEPT !.speedx = st.sy, !.speedy = st.sx,
               !.x = e.x + st.sy, !.y = e.y + st.sx]

ChasingMove(e, p) ==
  LET st == HeadingStep(p.x - e.x, p.y - e.y, e.speed)
  IN [e EXCEPT !.speedx = st.sx, !.speedy = st.sy,
               !.x = e.x + st.sx, !.y = e.y + st.sy]

\* the leg FencingEnemy switches to at the end of each leg
FencingTurn ==
  [up |-> "right", right |-> "down", down |-> "left", left |-> "up"]

\* the leg BlockerEnemy switches to at the end of each leg
BlockerTurn ==
  [up |-> "down", right |-> "left", down |-> "up", left |-> "right"]

\* up / right / down / left of FencingEnemy and BlockerEnemy: one step along
\* the leg, then the switch once the coordinate is strictly beyond the anchor
\* -/+ off
PatrolMove(e, off, turn) ==
  CASE e.move = "up" ->
         LET y == e.y - e.speed
         IN [e EXCEPT !.y = y,
               !.move = IF y < e.ay - S(off) THEN turn.up ELSE @]
    [] e.move = "right" ->
         LET x == e.x + e.speed
         IN [e EXCEPT !.x = x,
               !.move = IF x > e.ax + S(off) THEN turn.right ELSE @]
    [] e.move = "down" ->
         LET y == e.y + e.speed
         IN [e EXCEPT !.y = y,
               !.move = IF y > e.ay + S(off) THEN turn.down ELSE @]
    [] e.move = "left" ->
         LET x == e.x - e.speed
         IN [e EXCEPT !.x = x,
               !.move = IF x < e.ax - S(off) THEN turn.left ELSE @]

\* a FencingEnemy that turns twice as far from Home
FencingMoveWide(e) == PatrolMove(e, 2 * OffFromHome, FencingTurn)

\* a FencingEnemy with the Blocker's turns
FencingMoveBlockerTurns(e) == PatrolMove(e, OffFromHome, BlockerTurn)

FencingMove(e) == PatrolMove(e, OffFromHome, FencingTurn)

\* a BlockerEnemy with the Fencing turns
BlockerMoveFencingTurns(e) == PatrolMove(e, OffFromPlayer, FencingTurn)

BlockerMove(e) == PatrolMove(e, OffFromPlayer, BlockerTurn)

\* the movement part of update(), by the enemy's class
EnemyMove(e, p, w, h) ==
  LET m == CASE e.kind = "RandomWalkEnemy" -> RandomWalkMove(e, w, h)
             [] e.kind = "ChasingEnemy" -> ChasingMove(e, p)
             [] e.kind = "FencingEnemy" -> FencingMove(e)
             [] e.kind = "BlockerEnemy" -> BlockerMove(e)
  IN [m EXCEPT !.fresh = FALSE]

\* ------------------------------------------------- EnemyGenerator
\* the draws of randint(1, 5) the model follows
RandSpeeds == {RandSpeedMin, RandSpeedMax}

\* the draws of (randint(0, w - 1), randint(0, w - 1)) the model follows
RandPoints(w, h) ==
  {pt \in {<<0, 0>>, <<w - 1, w - 1>>, <<h.x \div Scale + 2, h.y \div Scale>>} :
     pt[1] \in 0..(w - 1) /\ pt[2] \in 0..(w - 1)}

\* whether create() of the class raises: randint(0, w - 1) has nothing to draw
CreateRaises(kind, w) ==
  kind \in {"RandomWalkEnemy", "ChasingEnemy"} /\ w - 1 < 0

\* the draws create() of the class makes
CreateDraws(kind, w, h) ==
  IF kind \in {"RandomWalkEnemy", "ChasingEnemy"} THEN RandPoints(w, h)
  ELSE {<<0, 0>>}

\* a re-schedule with the first delay in place of the interval
NextSpawnFirstDelay(t) == t + FirstSpawnDelay

\* canvas.after(500, self.create_enemy), called at time t
NextSpawn(t) == t + SpawnInterval

\* enemy_factory(self.__game, 20, color): the constructor of the class drawn
Construct(kind, size, color, sp, h, p) ==
  CASE kind = "RandomWalkEnemy" -> RandomWalkInit(size, color, sp)
    [] kind = "ChasingEnemy" -> ChasingInit(size, color)
    [] kind = "FencingEnemy" -> FencingInit(size, color, h)
    [] kind = "BlockerEnemy" -> BlockerInit(size, color, p)

\* the creation hook create() of the enemy's class
CreateHook(e, pt, r) ==
  CASE e.kind = "RandomWalkEnemy" -> RandomCreate(e, pt[1], pt[2])
    [] e.kind = "ChasingEnemy" -> RandomCreate(e, pt[1], pt[2])
    [] e.kind = "FencingEnemy" -> FencingCreate(e, r)
    [] e.kind = "BlockerEnemy" -> BlockerCreate(e, r)

\* Game.add_element: run the creation hook, then register the element
AddElement(es, e, pt, r) == Append(es, CreateHook(e, pt, r))

\* a create_enemy() that takes the colour next to the one drawn
SpawnedEnemyNextColor(kind, color, sp, h, p) ==
  [Construct(kind, S(EnemySize),
             IF color = "red" THEN "green" ELSE IF color = "green" THEN "blue"
             ELSE IF color = "blue" THEN "yellow" ELSE "red", sp, h, p) EXCEPT
     !.x = S(SpawnX), !.y = S(SpawnY)]

\* the enemy create_enemy() builds before registering it
SpawnedEnemy(kind, color, sp, h, p) ==
  [Construct(kind, S(EnemySize), color, sp, h, p) EXCEPT
     !.x = S(SpawnX), !.y = S(SpawnY)]

\* --------------------------------------------- TurtleAdventureGame
\* an init_game that registers no enemy kind
NoKindRegistered == <<>>

\* the enemy kinds and colours init_game registers, in order
RegisteredKinds ==
  <<"RandomWalkEnemy", "ChasingEnemy", "FencingEnemy", "BlockerEnemy">>

RegisteredColors == <<"red", "green", "blue", "yellow">>

\* Home(self, (screen_width - 100, screen_height // 2), 20)
NewHome(w, h) ==
  [x |-> S(w - HomeOffsetX), y |-> S(h \div 2), size |-> S(HomeSize)]

\* the player where init_game puts it
PlacedPlayer(h) ==
  [x |-> S(PlayerStartX), y |-> S(h \div 2), speed |-> S(PlayerSpeed)]

\* The session of a w x h arena after __init__ / init_game and start(): the
\* three singletons registered, the four enemy kinds registered, the first
\* create_enemy scheduled, the first animate due.
InitGame(w, h) ==
  /\ screen_width = w
  /\ screen_height = h
  /\ enemies_factory = RegisteredKinds
  /\ enemies_color = RegisteredColors
  /\ home = NewHome(w, h)
  /\ player = PlacedPlayer(h)
  /\ waypoint = [x |-> 0, y |-> 0, active |-> FALSE]
  /\ enemies = <<>>
  /\ running = TRUE
  /\ overlays = <<>>
  /\ now = 0
  /\ tickDue = 0
  /\ spawnDue = FirstSpawnDelay
  /\ idx = 0
  /\ ticks = 0
  /\ clicks = 0
  /\ pc = "run"

Init == InitGame(ArenaWidth, ArenaHeight)

config ==
  <<screen_width, screen_height, enemies_factory, enemies_color, home, pc>>

\* game_over_win / game_over_lose: stop(), then draw the text
GameOverWin ==
  /\ running' = FALSE
  /\ overlays' = Append(overlays, "You Win")

GameOverLose ==
  /\ running' = FALSE
  /\ overlays' = Append(overlays, "You Lose")

\* the clicks the model follows: Home's centre, the player's start, a point
\* up and to the right of the start
ClickPoints ==
  {<<home.x \div Scale, home.y \div Scale>>,
   <<PlayerStartX, screen_height \div 2>>,
   <<PlayerStartX + 30, screen_height \div 2 - 40>>}

\* <Button-1>: waypoint.activate(e.x, e.y)
Click ==
  /\ pc = "run"
  /\ idx = 0
  /\ clicks < MaxClicks
  /\ \E pt \in ClickPoints : waypoint' = WaypointActivate(S(pt[1]), S(pt[2]))
  /\ clicks' = clicks + 1
  /\ UNCHANGED <<config, player, enemies, running, overlays, now, tickDue,
                 spawnDue, idx, ticks>>

\* create_enemy raises (randint has nothing to draw): nothing is registered
\* and the callback is not scheduled again
CreateEnemyRaises ==
  /\ enemies' = enemies
  /\ spawnDue' = NoTimer

\* EnemyGenerator.create_enemy, fired by the timer
CreateEnemy ==
  /\ pc = "run"
  /\ idx = 0
  /\ spawnDue # NoTimer
  /\ tickDue = NoTimer \/ spawnDue <= tickDue
  /\ Len(enemies) < MaxEnemies
  /\ now' = spawnDue
  /\ IF Len(enemies_factory) = 0
     THEN CreateEnemyRaises
     ELSE \E randindex \in 0..(Len(enemies_factory) - 1) :
            IF CreateRaises(enemies_factory[randindex + 1], screen_width)
            THEN CreateEnemyRaises
            ELSE /\ \E sp \in RandSpeeds, r \in 0..3,
                       pt \in CreateDraws(enemies_factory[randindex + 1],
                                          screen_width, home) :
                      LET new_enemy ==
                            SpawnedEnemy(enemies_factory[randindex + 1],
                                         enemies_color[randindex + 1], sp, home,
                                         player)
                      IN enemies' = AddElement(enemies, new_enemy, pt, r)
                 /\ spawnDue' = NextSpawn(spawnDue)
  /\ UNCHANGED <<config, player, waypoint, running, overlays, tickDue, idx,
                 ticks, clicks>>

\* Game.animate, fired by the timer: a stopped game runs no tick and does not
\* re-schedule
Animate ==
  /\ pc = "run"
  /\ idx = 0
  /\ tickDue # NoTimer
  /\ spawnDue = NoTimer \/ tickDue <= spawnDue
  /\ now' = tickDue
  /\ IF running
     THEN /\ ticks < MaxTicks
          /\ idx' = 1
          /\ ticks' = ticks + 1
          /\ UNCHANGED tickDue
     ELSE /\ tickDue' = NoTimer
          /\ UNCHANGED <<idx, ticks>>
  /\ UNCHANGED <<config, player, waypoint, enemies, running, overlays,
                 spawnDue, clicks>>

\* Waypoint.update
UpdateWaypoint ==
  /\ idx = 1
  /\ idx' = 2
  /\ UNCHANGED <<config, player, waypoint, enemies, running, overlays, now,
                 tickDue, spawnDue, ticks, clicks>>

\* Home.update
UpdateHome ==
  /\ idx = 2
  /\ idx' = 3
  /\ UNCHANGED <<config, player, waypoint, enemies, running, overlays, now,
                 tickDue, spawnDue, ticks, clicks>>

\* Player.update: the Home test, then the move to the waypoint
PlayerUpdate ==
  /\ IF HomeContains(home, player.x, player.y)
     THEN GameOverWin
     ELSE UNCHANGED <<running, overlays>>
  /\ LET m == PlayerMove(player, waypoint)
     IN /\ player' = m.player
        /\ waypoint' = m.waypoint

UpdatePlayer ==
  /\ idx = 3
  /\ PlayerUpdate
  /\ idx' = 4
  /\ UNCHANGED <<config, enemies, now, tickDue, spawnDue, ticks, clicks>>

\* update() of the i-th enemy: the move, then the hit test
EnemyUpdate(i) ==
  LET e == EnemyMove(enemies[i], player, screen_width, screen_height)
  IN /\ enemies' = [enemies EXCEPT ![i] = e]
     /\ IF HitsPlayer(e, player)
        THEN GameOverLose
        ELSE UNCHANGED <<running, overlays>>

UpdateEnemy ==
  /\ idx > 3
  /\ idx <= 3 + Len(enemies)
  /\ EnemyUpdate(idx - 3)
  /\ idx' = idx + 1
  /\ UNCHANGED <<config, player, waypoint, now, tickDue, spawnDue, ticks,
                 clicks>>

\* the end of Game.animate: re-schedule after the update delay
AnimateEnd ==
  /\ idx = 3 + Len(enemies) + 1
  /\ idx' = 0
  /\ tickDue' = now + TickDelay
  /\ UNCHANGED <<config, player, waypoint, enemies, running, overlays, now,
                 spawnDue, ticks, clicks>>

Next ==
  \/ Click
  \/ CreateEnemy
  \/ Animate
  \/ UpdateWaypoint
  \/ UpdateHome
  \/ UpdatePlayer
  \/ UpdateEnemy
  \/ AnimateEnd

Spec == Init /\ [][Next]_vars

\* ------------------------------------------- init_game, step by step
\* The session of a w x h arena inside init_game, the three singletons
\* registered and the click bound, before the EnemyGenerator is constructed:
\* no enemy kind registered, no timer set, the event loop not yet running.
InitGameStart(w, h) ==
  /\ screen_width = w
  /\ screen_height = h
  /\ enemies_factory = <<>>
  /\ enemies_color = <<>>
  /\ home = NewHome(w, h)
  /\ player = [x |-> 0, y |-> 0, speed |-> S(PlayerSpeed)]
  /\ waypoint = [x |-> 0, y |-> 0, active |-> FALSE]
  /\ enemies = <<>>
  /\ running = FALSE
  /\ overlays = <<>>
  /\ now = 0
  /\ tickDue = NoTimer
  /\ spawnDue = NoTimer
  /\ idx = 0
  /\ ticks = 0
  /\ clicks = 0
  /\ pc = "generator"

\* EnemyGenerator.__init__: the first create_enemy is scheduled
NewEnemyGenerator ==
  /\ pc = "generator"
  /\ spawnDue' = now + FirstSpawnDelay
  /\ pc' = "factories"
  /\ UNCHANGED <<screen_width, screen_height, enemies_factory, enemies_color,
                 home, player, waypoint, enemies, running, overlays, now,
                 tickDue, idx, ticks, clicks>>

\* add_enemy_factory, called for the next kind of init_game's list
AddEnemyFactory ==
  /\ pc = "factories"
  /\ Len(enemies_factory) < Len(RegisteredKinds)
  /\ enemies_factory' =
       Append(enemies_factory, RegisteredKinds[Len(enemies_factory) + 1])
  /\ enemies_color' =
       Append(enemies_color, RegisteredColors[Len(enemies_factory) + 1])
  /\ UNCHANGED <<screen_width, screen_height, home, player, waypoint, enemies,
                 running, overlays, now, tickDue, spawnDue, idx, ticks, clicks,
                 pc>>

\* the last two lines of init_game: the player is put at its start
PlacePlayer ==
  /\ pc = "factories"
  /\ Len(enemies_factory) = Len(RegisteredKinds)
  /\ player' = PlacedPlayer(screen_height)
  /\ pc' = "start"
  /\ UNCHANGED <<screen_width, screen_height, enemies_factory, enemies_color,
                 home, waypoint, enemies, running, overlays, now, tickDue,
                 spawnDue, idx, ticks, clicks>>

\* start() and the event loop: the session runs, the first animate is due
Start ==
  /\ pc = "start"
  /\ running' = TRUE
  /\ tickDue' = now
  /\ pc' = "run"
  /\ UNCHANGED <<screen_width, screen_height, enemies_factory, enemies_color,
                 home, player, waypoint, enemies, overlays, now, spawnDue, idx,
                 ticks, clicks>>

NextInit ==
  \/ NewEnemyGenerator
  \/ AddEnemyFactory
  \/ PlacePlayer
  \/ Start
  \/ Next

SpecInit == InitGameStart(ArenaWidth, ArenaHeight) /\ [][NextInit]_vars

\* the arenas a session is constructed with: the model's, and ones with a
\* non-positive width or height
Configs ==
  {<<ArenaWidth, ArenaHeight>>, <<0, 0>>, <<0 - ArenaWidth, ArenaHeight>>}

InitConfig == \E cfg \in Configs : InitGameStart(cfg[1], cfg[2])

SpecConfig == InitConfig /\ [][NextInit]_vars

\* ------------------------------------------ update() called directly
\* A session right after init_game, for the specifications that call
\* update() on single elements.
InitSessionOf(w, h) ==
  /\ screen_width = w
  /\ screen_height = h
  /\ enemies_factory = RegisteredKinds
  /\ enemies_color = RegisteredColors
  /\ home = NewHome(w, h)
  /\ running = TRUE
  /\ overlays = <<>>
  /\ now = 0
  /\ tickDue = 0
  /\ spawnDue = FirstSpawnDelay
  /\ idx = 0
  /\ ticks = 0
  /\ clicks = 0
  /\ pc = "run"

InitSession == InitSessionOf(ArenaWidth, ArenaHeight)

\* one call of Player.update()
CallPlayerUpdate ==
  /\ Len(overlays) < MaxOverlays
  /\ PlayerUpdate
  /\ UNCHANGED <<config, enemies, now, tickDue, spawnDue, idx, ticks, clicks>>

\* one call of update() on a registered enemy
CallEnemyUpdate ==
  /\ Len(overlays) < MaxOverlays
  /\ \E i \in 1..Len(enemies) : EnemyUpdate(i)
  /\ UNCHANGED <<config, player, waypoint, now, tickDue, spawnDue, idx, ticks,
                 clicks>>

\* one call of update() on a registered enemy, as the only element of a tick
TickEnemy ==
  /\ ticks < MaxTicks
  /\ Len(overlays) < MaxOverlays
  /\ \E i \in 1..Len(enemies) : EnemyUpdate(i)
  /\ ticks' = ticks + 1
  /\ UNCHANGED <<config, player, waypoint, now, tickDue, spawnDue, idx, clicks>>

\* ---- Player.update() from every waypoint offset within MaxOffset
InitPlayer ==
  /\ InitSession
  /\ player = [x |-> S(PlayerStartX), y |-> S(ArenaHeight \div 2),
               speed |-> S(PlayerSpeed)]
  /\ \E dx \in (0 - MaxOffset)..MaxOffset, dy \in (0 - MaxOffset)..MaxOffset :
       waypoint = WaypointActivate(player.x + S(dx), player.y + S(dy))
  /\ enemies = <<>>

SpecPlayer == InitPlayer /\ [][CallPlayerUpdate]_vars

\* ---- ChasingEnemy.update() from every offset within MaxOffset of the player
InitChase ==
  /\ InitSession
  /\ player = [x |-> S(PlayerStartX), y |-> S(ArenaHeight \div 2),
               speed |-> S(PlayerSpeed)]
  /\ waypoint = [x |-> 0, y |-> 0, active |-> FALSE]
  /\ \E dx \in (0 - MaxOffset)..MaxOffset, dy \in (0 - MaxOffset)..MaxOffset,
        k \in {1, 3} :
       enemies = <<RandomCreate(ChasingInit(S(EnemySize), "green"),
                                PlayerStartX + k * dx, ArenaHeight \div 2 + k * dy)>>

SpecChase == InitChase /\ [][CallEnemyUpdate]_vars

\* ---- update() of one Fencing or Blocker enemy, from each of its 4 starts,
\* while the player walks to a waypoint off the patrol
InitPatrol ==
  /\ InitSession
  /\ player = [x |-> S(PlayerStartX), y |-> S(ArenaHeight \div 2),
               speed |-> S(PlayerSpeed)]
  /\ \E a \in BOOLEAN :
       waypoint = [x |-> player.x + S(30), y |-> player.y - S(40), active |-> a]
  /\ \E kind \in {"FencingEnemy", "BlockerEnemy"}, r \in 0..3 :
       enemies = AddElement(<<>>,
                   SpawnedEnemy(kind, "blue", RandSpeedMin, home, player),
                   <<0, 0>>, r)

NextPatrol == CallEnemyUpdate \/ CallPlayerUpdate

SpecPatrol == InitPatrol /\ [][NextPatrol]_vars /\ WF_vars(CallEnemyUpdate)

\* ---- update() of one enemy of each kind, spawned as create_enemy spawns
\* it, with the player at every offset within MaxReach of it
InitHit ==
  /\ InitSession
  /\ waypoint = [x |-> 0, y |-> 0, active |-> FALSE]
  /\ \E randindex \in 0..(Len(enemies_factory) - 1), sp \in RandSpeeds,
        r \in 0..3,
        dx \in (0 - MaxReach)..MaxReach, dy \in (0 - MaxReach)..MaxReach :
       \E pt \in CreateDraws(enemies_factory[randindex + 1], screen_width, home) :
         LET p == PlacedPlayer(screen_height)
             new_enemy == SpawnedEnemy(enemies_factory[randindex + 1],
                                       enemies_color[randindex + 1], sp, home, p)
             es == AddElement(<<>>, new_enemy, pt, r)
         IN /\ enemies = es
            /\ player = [p EXCEPT !.x = es[1].x + S(dx), !.y = es[1].y + S(dy)]

SpecHit == InitHit /\ [][TickEnemy]_vars

\* ---- Player.update() with the player at every offset within MaxReach of
\* Home's centre, the waypoint at the centre, active or not
InitHome ==
  /\ InitSession
  /\ enemies = <<>>
  /\ \E a \in BOOLEAN : waypoint = [x |-> home.x, y |-> home.y, active |-> a]
  /\ \E dx \in (0 - MaxReach)..MaxReach, dy \in (0 - MaxReach)..MaxReach :
       player = [PlacedPlayer(screen_height) EXCEPT !.x = home.x + S(dx),
                                                    !.y = home.y + S(dy)]

SpecHome == InitHome /\ [][CallPlayerUpdate]_vars

\* ---- the ticks of a session without enemies: animate() calls
\* Player.update() and is scheduled again while the session runs
TickPlayer ==
  /\ running
  /\ ticks < MaxWalkTicks
  /\ PlayerUpdate
  /\ ticks' = ticks + 1
  /\ UNCHANGED <<config, enemies, now, tickDue, spawnDue, idx, clicks>>

\* the arena of the spec's scenarios
ScenarioArena == <<800, 600>>

\* where the player stands on the line y = 300 when the click comes
ScenarioStarts == {50, 52, 400, 689, 690, 700, 711, 799}

\* ---- the scenario arena after a click on Home's centre, (700, 300)
InitScenario ==
  /\ InitSessionOf(ScenarioArena[1], ScenarioArena[2])
  /\ enemies = <<>>
  /\ \E x0 \in ScenarioStarts :
       player = [PlacedPlayer(screen_height) EXCEPT !.x = S(x0)]
  /\ waypoint = WaypointActivate(home.x, home.y)

SpecScenario == InitScenario /\ [][TickPlayer]_vars /\ WF_vars(TickPlayer)

\* the clicks followed from the player's start: every point within MaxOffset
\* of it, and points along y = 300 up to the scenario's (400, 300)
WalkTargets(p) ==
  {[x |-> p.x + S(dx), y |-> p.y + S(dy)] :
     dx \in (0 - MaxOffset)..MaxOffset, dy \in (0 - MaxOffset)..MaxOffset}
  \cup {[x |-> p.x + S(50 * dx), y |-> p.y] : dx \in 0..MaxOffset}

\* ---- the scenario arena after a click, the player at its start (50, 300)
InitWalk ==
  /\ InitSessionOf(ScenarioArena[1], ScenarioArena[2])
  /\ enemies = <<>>
  /\ player = PlacedPlayer(screen_height)
  /\ \E t \in WalkTargets(player) : waypoint = WaypointActivate(t.x, t.y)

SpecWalk == InitWalk /\ [][TickPlayer]_vars

\* ----------------------------------------------------------- outcome
\* the session's outcome: the first end-of-game signal decides it
Outcome ==
  IF overlays = <<>> THEN "in-progress"
  ELSE IF Head(overlays) = "You Win" THEN "won" ELSE "lost"

\* C1: a session signals win or lose at most once: after the first
\* game_over_win()/game_over_lose() no update() produces a second signal or
\* overlay, so win and lose are never both signalled.
C1_WinLoseLatch == Len(overlays) <= 1

\* C2: once the session has stopped, a create_enemy callback that fires adds
\* no enemy and does not re-schedule itself.
C2_SpawnCancelledAfterStop ==
  [][~running => (Len(enemies') = Len(enemies) /\ spawnDue' = spawnDue)]_vars

\* C3: from the win/lose signal on, the rest of the tick's update() calls
\* change no entity's position, no enemy's direction or leg and not the
\* waypoint's active flag.
C3_NoUpdateAfterOutcome ==
  [][(~running /\ idx # 0) =>
       (player' = player /\ enemies' = enemies /\ waypoint' = waypoint)]_vars

\* C4: the player's position is never inside Home's rectangle in a session
\* whose outcome is lost.
C4_HomeMeansWin ==
  ~(HomeContains(home, player.x, player.y) /\ Outcome = "lost")

\* C5 as stated: an enemy registered by the spawn scheduler and not yet
\* updated has size 20 and is at (100, 100).
C5_SpawnAtFixedPoint ==
  \A i \in 1..Len(enemies) :
    enemies[i].fresh =>
      /\ enemies[i].size = S(EnemySize)
      /\ enemies[i].x = S(SpawnX)
      /\ enemies[i].y = S(SpawnY)

\* whether enemy e is at a place create() of its class can put it, with the
\* player at p
AtCreatePlace(e, w, p) ==
  CASE e.kind \in {"RandomWalkEnemy", "ChasingEnemy"} ->
         /\ e.x % Scale = 0 /\ 0 <= e.x /\ e.x <= S(w - 1)
         /\ e.y % Scale = 0 /\ 0 <= e.y /\ e.y <= S(w - 1)
    [] e.kind = "FencingEnemy" ->
         <<e.x, e.y>> \in
           {<<home.x, home.y + S(OffFromHome)>>, <<home.x + S(OffFromHome), home.y>>,
            <<home.x, home.y - S(OffFromHome)>>, <<home.x - S(OffFromHome), home.y>>}
    [] e.kind = "BlockerEnemy" ->
         <<e.x, e.y>> \in
           {<<p.x, p.y + S(OffFromPlayer)>>, <<p.x + S(OffFromPlayer), p.y>>,
            <<p.x, p.y - S(OffFromPlayer)>>, <<p.x - S(OffFromPlayer), p.y>>}

\* C5, amended: every enemy the spawn scheduler registers has size 20, and
\* its position is the one create() of its kind chose: integer coordinates in
\* [0, screen_width - 1] for RandomWalk and Chasing, one of the 4 points 60
\* from Home for Fencing, one of the 4 points 60 from the player's position at
\* spawn time for Blocker.
C5_SpawnSizeAndCreatePlace ==
  [][Len(enemies') > Len(enemies) =>
       LET e == enemies'[Len(enemies')]
       IN /\ e.fresh
          /\ e.size = S(EnemySize)
          /\ AtCreatePlace(e, screen_width, player)]_vars

C5_Witness ==
  \E i \in 1..Len(enemies) :
    /\ enemies[i].fresh
    /\ enemies[i].kind = "FencingEnemy"
    /\ enemies[i].size = S(EnemySize)
    /\ <<enemies[i].x, enemies[i].y>> # <<S(SpawnX), S(SpawnY)>>

\* C6: while the session runs, the k-th spawn fires at time 100 + 500 * (k - 1),
\* no spawn is skipped, each firing appends exactly one enemy and re-schedules
\* 500 later, and no step removes or replaces a registered enemy.
C6_SpawnSchedule ==
  [][running =>
       /\ now' <= spawnDue'
       /\ \/ /\ Len(enemies') = Len(enemies)
             /\ spawnDue' = spawnDue
          \/ /\ Len(enemies') = Len(enemies) + 1
             /\ SubSeq(enemies', 1, Len(enemies)) = enemies
             /\ now' = FirstSpawnDelay + SpawnInterval * Len(enemies)
             /\ spawnDue' = now' + SpawnInterval]_vars

C6_Witness ==
  /\ running
  /\ Len(enemies) = 2
  /\ now = FirstSpawnDelay + SpawnInterval
  /\ spawnDue = FirstSpawnDelay + 2 * SpawnInterval

\* the squared distance between two elements
DistSq(a, b) == (a.x - b.x) * (a.x - b.x) + (a.y - b.y) * (a.y - b.y)

\* C7: a Player.update() with the waypoint active at a distance of at most
\* speed deactivates the waypoint and leaves the player within speed of it.
C7_ArrivalDeactivation ==
  [][(waypoint.active /\ DistSq(player, waypoint) <= player.speed * player.speed) =>
       /\ ~waypoint'.active
       /\ DistSq(player', waypoint') <= player.speed * player.speed]_vars

\* the distance between enemy e and player p
ChaseDistance(e, p) == Distance(e.x, e.y, p.x, p.y)

\* C8 as stated: a ChasingEnemy.update() from any position other than the
\* player's ends strictly closer to the player, by speed.
C8_ChasingConvergence ==
  [][\A i \in 1..Len(enemies) :
       (enemies[i].kind = "ChasingEnemy" /\ DistSq(enemies[i], player) # 0) =>
         LET d == ChaseDistance(enemies[i], player)
             dn == ChaseDistance(enemies'[i], player')
         IN /\ dn < d
            /\ Abs(d - enemies[i].speed - dn) <= Tolerance]_vars

\* C8, amended: a ChasingEnemy.update() from a distance d >= speed ends
\* strictly closer to the player, at distance d - speed; from a distance
\* d < speed the chaser steps past the player and ends at distance speed - d.
C8_ChasingConvergenceFromSpeed ==
  [][\A i \in 1..Len(enemies) :
       enemies[i].kind = "ChasingEnemy" =>
         LET d == ChaseDistance(enemies[i], player)
             dn == ChaseDistance(enemies'[i], player')
             sp == enemies[i].speed
         IN IF DistSq(enemies[i], player) >= sp * sp
            THEN dn < d /\ Abs(d - sp - dn) <= Tolerance
            ELSE Abs(sp - d - dn) <= Tolerance]_vars

C8_Witness ==
  \E i \in 1..Len(enemies) :
    /\ enemies[i].kind = "ChasingEnemy"
    /\ ~enemies[i].fresh
    /\ enemies[i].speedx > 0
    /\ 4 * enemies[i].speedx = 3 * enemies[i].speedy
    /\ ChaseDistance(enemies[i], player) = S(2)

\* whether enemy e is within h of the point (ax, ay) on both axes
InSquare(e, ax, ay, h) == Abs(e.x - ax) <= h /\ Abs(e.y - ay) <= h

\* C9 as stated: a Fencing enemy stays in the square of half-width 60 around
\* Home, a Blocker enemy in the square of half-width 60 around the player's
\* position at its construction.
C9_PatrolBound ==
  \A i \in 1..Len(enemies) :
    /\ enemies[i].kind = "FencingEnemy" =>
         InSquare(enemies[i], home.x, home.y, S(OffFromHome))
    /\ enemies[i].kind = "BlockerEnemy" =>
         InSquare(enemies[i], S(PlayerStartX), S(ArenaHeight \div 2),
                  S(OffFromPlayer))

\* C9, amended: the squares have half-width 60 + speed (62 for Fencing, 67
\* for Blocker): a leg ends only once the coordinate is strictly beyond 60, so
\* the enemy oversteps the 60 square by up to one step.  The Blocker's square
\* is centred on the player's position at construction, wherever the player
\* goes afterwards.
C9_PatrolBoundPlusSpeed ==
  \A i \in 1..Len(enemies) :
    /\ enemies[i].kind = "FencingEnemy" =>
         InSquare(enemies[i], home.x, home.y, S(OffFromHome + FencingSpeed))
    /\ enemies[i].kind = "BlockerEnemy" =>
         InSquare(enemies[i], S(PlayerStartX), S(ArenaHeight \div 2),
                  S(OffFromPlayer + BlockerSpeed))

C9_Witness ==
  \E i \in 1..Len(enemies) :
    /\ enemies[i].kind = "BlockerEnemy"
    /\ ~enemies[i].fresh
    /\ Abs(enemies[i].y - S(ArenaHeight \div 2)) > S(OffFromPlayer)
    /\ player.x # S(PlayerStartX)
    /\ ~waypoint.active

\* the legs in the order of the Fencing cycle
LegOrder == <<"up", "right", "down", "left">>

LegAfter(leg) ==
  LET k == CHOOSE j \in 1..4 : LegOrder[j] = leg
  IN LegOrder[(k % 4) + 1]

\* whether enemy e is strictly beyond the boundary that ends leg, off from
\* its anchor
BeyondBoundary(e, leg, off) ==
  CASE leg = "up" -> e.y < e.ay - off
    [] leg = "right" -> e.x > e.ax + off
    [] leg = "down" -> e.y > e.ay + off
    [] leg = "left" -> e.x < e.ax - off

\* C10: an update() changes a Fencing enemy's leg exactly when the step took
\* it strictly beyond the boundary of its leg, the new leg is the next one in
\* the order up, right, down, left, up, and under repeated updates every leg
\* comes round again and again.
C10_FencingLegCycle ==
  /\ [][\A i \in 1..Len(enemies) :
          (enemies[i].kind = "FencingEnemy" /\ enemies'[i] # enemies[i]) =>
            /\ enemies'[i].move # enemies[i].move <=>
                 BeyondBoundary(enemies'[i], enemies[i].move, S(OffFromHome))
            /\ enemies'[i].move \in {enemies[i].move, LegAfter(enemies[i].move)}]_vars
  /\ \A leg \in {"up", "right", "down", "left"} :
       []<>(\A i \in 1..Len(enemies) :
              enemies[i].kind = "FencingEnemy" => enemies[i].move = leg)

C10_Witness ==
  \E i \in 1..Len(enemies) :
    /\ enemies[i].kind = "FencingEnemy"
    /\ enemies[i].move = "up"
    /\ enemies[i].x = home.x - S(OffFromHome + FencingSpeed)
    /\ enemies[i].y = home.y + S(OffFromHome)

\* C11: under repeated update() calls a Blocker enemy, from any of its 4
\* starts, comes to each of the 4 legs up, right, down, left again and again.
C11_BlockerLegCycle ==
  \A leg \in {"up", "right", "down", "left"} :
    []<>(\A i \in 1..Len(enemies) :
           enemies[i].kind = "BlockerEnemy" => enemies[i].move = leg)

\* the leg a Blocker enemy switches to: the one it came along, backwards
LegOpposite(leg) ==
  CASE leg = "up" -> "down"
    [] leg = "right" -> "left"
    [] leg = "down" -> "up"
    [] leg = "left" -> "right"

\* the place one step of length d along leg from (x, y)
LegStep(x, y, leg, d) ==
  CASE leg = "up" -> <<x, y - d>>
    [] leg = "right" -> <<x + d, y>>
    [] leg = "down" -> <<x, y + d>>
    [] leg = "left" -> <<x - d, y>>

\* C12: an update() takes a Blocker enemy 7 along its leg; its leg changes
\* exactly when the step took it strictly beyond the boundary of the leg, 60
\* from the anchor, and the new leg is then down after up, left after right,
\* up after down, right after left.
C12_BlockerEdgeSwitch ==
  [][\A i \in 1..Len(enemies) :
       (enemies[i].kind = "BlockerEnemy" /\ enemies'[i] # enemies[i]) =>
         /\ <<enemies'[i].x, enemies'[i].y>> =
              LegStep(enemies[i].x, enemies[i].y, enemies[i].move,
                      S(BlockerSpeed))
         /\ enemies'[i].move # enemies[i].move <=>
              BeyondBoundary(enemies'[i], enemies[i].move, S(OffFromPlayer))
         /\ enemies'[i].move \in
              {enemies[i].move, LegOpposite(enemies[i].move)}]_vars

C12_Witness ==
  \E i \in 1..Len(enemies) :
    /\ enemies[i].kind = "BlockerEnemy"
    /\ enemies[i].move = "down"
    /\ enemies[i].y < enemies[i].ay - S(OffFromPlayer)

\* whether (x, y) is strictly inside the box of side size centred on (cx, cy)
InOpenBox(cx, cy, size, x, y) ==
  2 * Abs(x - cx) < size /\ 2 * Abs(y - cy) < size

\* C13: an update() of an enemy of any kind signals loss exactly when, the
\* enemy moved, the player is strictly inside the box of side size centred on
\* the enemy's new position; a player on the edge of the box is no loss.
C13_LossDetection ==
  [][\A i \in 1..Len(enemies) :
       enemies'[i] # enemies[i] =>
         IF InOpenBox(enemies'[i].x, enemies'[i].y, enemies'[i].size,
                      player.x, player.y)
         THEN ~running' /\ overlays' = Append(overlays, "You Lose")
         ELSE UNCHANGED <<running, overlays>>]_vars

C13_Witness ==
  \E i \in 1..Len(enemies) :
    /\ ~enemies[i].fresh
    /\ 2 * Abs(player.x - enemies[i].x) = enemies[i].size
    /\ 2 * Abs(player.y - enemies[i].y) < enemies[i].size
    /\ overlays = <<>>

\* whether (x, y) is in the closed box of side size centred on (cx, cy)
InClosedBox(cx, cy, size, x, y) ==
  2 * Abs(x - cx) <= size /\ 2 * Abs(y - cy) <= size

\* C14: a Player.update() signals win exactly when the player's position is
\* in Home's closed rectangle, the boundary included, the waypoint active or
\* not.
C14_WinDetection ==
  [][IF InClosedBox(home.x, home.y, home.size, player.x, player.y)
     THEN ~running' /\ overlays' = Append(overlays, "You Win")
     ELSE UNCHANGED <<running, overlays>>]_vars

C14_Witness ==
  /\ ~waypoint.active
  /\ 2 * player.x = 2 * home.x - home.size
  /\ overlays = <<"You Win">>

\* C15: in the 800 x 600 arena, the player on the line y = 300 and the
\* waypoint activated at Home's centre (700, 300), with no enemy, the ticks
\* eventually bring the player into Home's rectangle and the outcome is won.
C15_ScenarioLiveness ==
  <>(Outcome = "won" /\ HomeContains(home, player.x, player.y))

C15_Witness ==
  /\ screen_width = 800
  /\ ticks > 100
  /\ Outcome = "won"
  /\ HomeContains(home, player.x, player.y)

\* whether n ticks of travel cover the distance from a to b: n >= d / speed
TicksCover(n, speed, a, b) ==
  LET t == n * speed
  IN t > 46000 \/ t * t >= DistSq(a, b)

\* C16: with the waypoint activated at distance d from the player's start,
\* no further click and the session in progress, once ceil(d / speed) ticks
\* (at least one) have run the waypoint is inactive and the player is less
\* than speed from the target.
C16_WaypointRunTerminates ==
  (/\ running
   /\ ticks >= 1
   /\ TicksCover(ticks, player.speed, PlacedPlayer(screen_height), waypoint)) =>
    /\ ~waypoint.active
    /\ ShorterThan(waypoint.x - player.x, waypoint.y - player.y, player.speed)

\* C17: an update() moves a RandomWalk enemy by speed on both axes, and its
\* horizontal (vertical) direction reverses exactly when the x (y) coordinate
\* after the step is outside [0, screen_width] ([0, screen_height]).
C17_RandomWalkBounce ==
  [][\A i \in 1..Len(enemies) :
       (enemies[i].kind = "RandomWalkEnemy" /\ enemies'[i] # enemies[i]) =>
         /\ Abs(enemies'[i].x - enemies[i].x) = enemies[i].speed
         /\ Abs(enemies'[i].y - enemies[i].y) = enemies[i].speed
         /\ enemies'[i].xmove # enemies[i].xmove <=>
              enemies'[i].x \notin 0..S(screen_width)
         /\ enemies'[i].ymove # enemies[i].ymove <=>
              enemies'[i].y \notin 0..S(screen_height)]_vars

\* C18: no session with a non-positive arena width or height comes to a
\* state where a tick or a spawn has run.
C18_InvalidConfigRejected ==
  (ticks > 0 \/ Len(enemies) > 0) => (screen_width > 0 /\ screen_height > 0)

\* the colour init_game registers with each enemy kind
KindColor ==
  [RandomWalkEnemy |-> "red", ChasingEnemy |-> "green",
   FencingEnemy |-> "blue", BlockerEnemy |-> "yellow"]

\* C19: the factory list and the colour list have the same length, each
\* index of them pairs a kind with its colour, and every spawned enemy has the
\* colour registered with its kind.
C19_KindColorPairing ==
  /\ Len(enemies_factory) = Len(enemies_color)
  /\ \A k \in 1..Len(enemies_factory) :
       enemies_color[k] = KindColor[enemies_factory[k]]
  /\ \A i \in 1..Len(enemies) : enemies[i].color = KindColor[enemies[i].kind]

C19_Witness ==
  /\ Len(enemies) = 2
  /\ enemies[1].kind = "BlockerEnemy" /\ enemies[1].color = "yellow"
  /\ enemies[2].kind = "FencingEnemy" /\ enemies[2].color = "blue"

\* C20: the first create_enemy() is scheduled while no enemy kind is
\* registered, yet every firing of create_enemy() sees all 4 kinds registered,
\* registers one enemy and schedules the next firing.
C20_FiringSeesFactories ==
  /\ [][(pc = "generator" /\ pc' # pc) =>
          (spawnDue' # NoTimer /\ enemies_factory' = <<>>)]_vars
  /\ [][(spawnDue # NoTimer /\ spawnDue' # spawnDue) =>
          /\ Len(enemies_factory) = 4
          /\ Len(enemies') = Len(enemies) + 1
          /\ enemies'[Len(enemies')].kind \in
               {enemies_factory[k] : k \in 1..Len(enemies_factory)}
          /\ spawnDue' # NoTimer]_vars

C20_Witness ==
  /\ pc = "run"
  /\ Len(enemies) = 1
  /\ now = FirstSpawnDelay
  /\ spawnDue = FirstSpawnDelay + SpawnInterval

\* C21: in every state a registered RandomWalk enemy has its x within
\* [-speed, screen_width + speed] and its y within
\* [-speed, screen_height + speed].
C21_RandomWalkNearArena ==
  \A i \in 1..Len(enemies) :
    enemies[i].kind = "RandomWalkEnemy" =>
      /\ 0 - enemies[i].speed <= enemies[i].x
      /\ enemies[i].x <= S(screen_width) + enemies[i].speed
      /\ 0 - enemies[i].speed <= enemies[i].y
      /\ enemies[i].y <= S(screen_height) + enemies[i].speed

====
